---- MODULE Spec2Model ----
(***************************************************************************)
(* S2A - Smart Academic Advisor (src/s2a_prototype/app.py).                *)
(*                                                                         *)
(* The knowledge graph is a set of triples.  A triple whose object is an   *)
(* IRI or an xsd:string literal is kept in g.edges, a triple whose object  *)
(* is an xsd:integer literal in g.ints.  IRIs are written by their         *)
(* fragment ("CS101" for http://example.org/s2a#CS101).  An optional       *)
(* value (Python's Optional[...]) is a set with at most one element: {}    *)
(* is None.  A rendered explanation string is the record or tuple of the   *)
(* values its f-string interpolates.                                       *)
(*                                                                         *)
(* recommend() is modelled step by step: the candidate loop with its       *)
(* trailing sort, one step per iteration of the credit-budget loop, the    *)
(* career loop with its sort, the paper loop with its sort and the return. *)
(* The order in which rdflib and Python sets enumerate their members is a  *)
(* nondeterministic input of each step.                                    *)
(***************************************************************************)
EXTENDS Integers, Sequences, FiniteSets, TLC

\* ---------------------------------------------------------------- bounds
\* The graphs checked are those within MaxEdits triple edits of the worked
\* example (Ada, CS101, CS201, CS202) extended by two careers and two papers.
MaxEdits == 2
\* The number of recommend() calls made for the same student on the graph.
MaxRuns == 2

\* ------------------------------------------------------ program constants
\* score = (len(matched), -(meta["difficulty"] or 999), -(meta["semester"] or 999))
MISSING_RANK == 999

\* ------------------------------------------------------------- optionals
None == {}

Some(x) == {x}

Get(o) == CHOOSE x \in o : TRUE

\* Python's `x or d` on an Optional[int]: d when x is None or 0.
OrElse(o, d) == IF o = None \/ o = Some(0) THEN d ELSE Get(o)

\* Python's `not x` on an Optional[str]: None or the empty string.
Falsy(o) == o = None \/ o = Some("")

\* ------------------------------------------------------- string ordering
\* Python compares str by code point; LexOrder lists every label of the
\* graphs below in that order.
LexOrder == <<"Ada", "Analyst", "CS101", "CS201", "CS202", "DB", "Engineer", "ML", "P1", "P2", "Zed">>

LexRank(l) == CHOOSE i \in 1..Len(LexOrder) : LexOrder[i] = l

\* ------------------------------------------------------------ sequences
Perms(S) == {f \in [1..Cardinality(S) -> S] : \A i, j \in 1..Cardinality(S) : f[i] = f[j] => i = j}

Range(f) == {f[i] : i \in DOMAIN f}

\* The members of seq that are in S, in seq's order.
RECURSIVE Restrict(_, _)
Restrict(seq, S) ==
  IF seq = <<>> THEN <<>>
  ELSE IF Head(seq) \in S THEN <<Head(seq)>> \o Restrict(Tail(seq), S)
       ELSE Restrict(Tail(seq), S)

\* Lexicographic order of Python tuples of three integers.
TupleLess(a, b) ==
  \/ a[1] < b[1]
  \/ a[1] = b[1] /\ a[2] < b[2]
  \/ a[1] = b[1] /\ a[2] = b[2] /\ a[3] < b[3]

\* list.sort / sorted on a list of [item, key] pairs, key a tuple of three
\* integers: a stable sort, also with reverse=True (elements with equal keys
\* keep their original order).  x goes after every element whose key it does
\* not strictly precede.
KeyBefore(x, y, reverse) == IF reverse THEN TupleLess(y.key, x.key) ELSE TupleLess(x.key, y.key)

RECURSIVE InsertStable(_, _, _)
InsertStable(sorted, x, reverse) ==
  IF sorted = <<>> THEN <<x>>
  ELSE IF KeyBefore(x, Head(sorted), reverse) THEN <<x>> \o sorted
       ELSE <<Head(sorted)>> \o InsertStable(Tail(sorted), x, reverse)

RECURSIVE SortStable(_, _)
SortStable(pairs, reverse) ==
  IF pairs = <<>> THEN <<>>
  ELSE InsertStable(SortStable(SubSeq(pairs, 1, Len(pairs) - 1), reverse), pairs[Len(pairs)], reverse)

Items(pairs) == [i \in 1..Len(pairs) |-> pairs[i].item]

\* ----------------------------------------------------------- the graph
\* build_graph_from_csv on the worked example: every node has its rdf:type
\* triple and a label triple (the label column defaults to the id).
Students == {"Ada"}

Courses == {"CS101", "CS201", "CS202"}

Skills == {"ML", "DB"}

Careers == {"Analyst", "Engineer"}

Papers == {"P1", "P2"}

\* "Zed" is the subject of no triple.
StudentIds == {"Ada", "Zed"}

TypeEdges ==
  {<<n, "type", "Student">> : n \in Students} \cup {<<n, "type", "Course">> : n \in Courses}
    \cup {<<n, "type", "Skill">> : n \in Skills} \cup {<<n, "type", "Career">> : n \in Careers}
    \cup {<<n, "type", "ResearchPaper">> : n \in Papers}

LabelEdges == {<<n, "label", n>> : n \in Students \cup Courses \cup Skills \cup Careers \cup Papers}

BaseEdges ==
  { <<"Ada", "takesCourse", "CS101">>, <<"Ada", "hasInterest", "ML">>,
    <<"CS201", "hasPrerequisite", "CS101">>, <<"CS202", "hasPrerequisite", "CS101">>,
    <<"CS101", "teachesSkill", "DB">>, <<"CS201", "teachesSkill", "ML">>,
    <<"CS202", "teachesSkill", "ML">>,
    <<"Analyst", "requiresSkill", "ML">>, <<"Engineer", "requiresSkill", "DB">>,
    <<"P1", "relatedTo", "ML">>, <<"P2", "relatedTo", "DB">> }

BaseInts ==
  { <<"CS101", "credits", 4>>, <<"CS201", "credits", 4>>, <<"CS202", "credits", 4>>,
    <<"Ada", "maxCredits", 6>> }

\* The rows a CSV set may have or lack instead: each member is a triple an
\* edit adds when the example lacks it and removes when it has it.
EditEdges ==
  BaseEdges \cup
  { <<"Ada", "takesCourse", "CS201">>, <<"Ada", "hasInterest", "DB">>,
    <<"CS202", "hasPrerequisite", "CS201">>,
    <<"CS202", "teachesSkill", "DB">>,
    <<"Analyst", "requiresSkill", "DB">>,
    <<"CS201", "track", "AI">>, <<"CS202", "track", "SE">>, <<"Ada", "preferredTrack", "AI">> }

\* An integer edit sets the attribute (replacing the value the example has)
\* or, when the example has exactly this value, removes it.
EditInts ==
  { <<"CS201", "credits", 4>>, <<"CS201", "credits", 8>>,
    <<"CS202", "credits", 0 - 2>>,
    <<"Ada", "maxCredits", 6>>, <<"Ada", "maxCredits", 0 - 1>>,
    <<"CS201", "semester", 2>>, <<"CS202", "semester", 1>>, <<"Ada", "targetSemester", 1>>,
    <<"CS201", "difficulty", 0>>, <<"CS201", "difficulty", MISSING_RANK + 1>>,
    <<"CS202", "difficulty", 1>>, <<"Ada", "maxDifficulty", 1>> }

\* The subsets of S with at most k members.
RECURSIVE SubsetsUpTo(_, _)
SubsetsUpTo(S, k) ==
  IF k = 0 THEN {{}}
  ELSE LET R == SubsetsUpTo(S, k - 1) IN R \cup {r \cup {x} : r \in R, x \in S}

Key(t) == <<t[1], t[2]>>

SingleValued(T) == \A t, u \in T : Key(t) = Key(u) => t = u

ApplyEdges(D) == TypeEdges \cup LabelEdges \cup (BaseEdges \ D) \cup (D \ BaseEdges)

ApplyInts(D) == {t \in BaseInts : Key(t) \notin {Key(u) : u \in D}} \cup (D \ BaseInts)

Graphs ==
  { [edges |-> ApplyEdges(de), ints |-> ApplyInts(di)] :
      <<de, di>> \in { x \in SubsetsUpTo(EditEdges, MaxEdits) \X SubsetsUpTo(EditInts, MaxEdits) :
                        Cardinality(x[1]) + Cardinality(x[2]) <= MaxEdits /\ SingleValued(x[2]) } }

\* -------------------------------------------------------- rdflib.Graph
\* g.objects(s, p), for IRI and string objects and for integer objects.
objects(G, s, p) == {t[3] : t \in {u \in G.edges : u[1] = s /\ u[2] = p}}

int_objects(G, s, p) == {t[3] : t \in {u \in G.ints : u[1] = s /\ u[2] = p}}

\* g.subjects(p, o)
subjects(G, p, o) == {t[1] : t \in {u \in G.edges : u[2] = p /\ u[3] = o}}

\* Mutant: subject and object are swapped.
ContainsReversed(G, s, p, o) == <<o, p, s>> \in G.edges

\* (s, p, o) in g
contains(G, s, p, o) == <<s, p, o>> \in G.edges

\* g.value(s, p): one of the objects, None when there is none.
value(G, s, p) == IF objects(G, s, p) = {} THEN None ELSE Some(Get(objects(G, s, p)))

int_value(G, s, p) == IF int_objects(G, s, p) = {} THEN None ELSE Some(Get(int_objects(G, s, p)))

iri_to_label(G, node) == IF ~Falsy(value(G, node, "label")) THEN Get(value(G, node, "label")) ELSE node

_get_int(G, subj, prop) == int_value(G, subj, prop)

_get_str(G, subj, prop) == value(G, subj, prop)

\* sorted(S, key=lambda x: iri_to_label(g, x)) over a set enumerated as enum.
SortedByLabel(G, enum) ==
  Items(SortStable([i \in 1..Len(enum) |-> [item |-> enum[i], key |-> <<LexRank(iri_to_label(G, enum[i])), 0, 0>>]], FALSE))

SetToSeq(S) == CHOOSE f \in Perms(S) : TRUE

\* sorted(iri_to_label(g, x) for x in S)
SortedLabels(G, S) ==
  LET enum == SetToSeq(S)
      sorted == SortStable([i \in 1..Len(enum) |-> [item |-> iri_to_label(G, enum[i]), key |-> <<LexRank(iri_to_label(G, enum[i])), 0, 0>>]], FALSE)
  IN Items(sorted)

\* Mutant: a course without credits counts as 1 credit.
CourseMetaDefaultOne(G, course) ==
  [ credits    |-> OrElse(_get_int(G, course, "credits"), 1),
    semester   |-> _get_int(G, course, "semester"),
    difficulty |-> _get_int(G, course, "difficulty"),
    track      |-> _get_str(G, course, "track") ]

\* ------------------------------------------------------------ recommend
_course_meta(G, course) ==
  [ credits    |-> OrElse(_get_int(G, course, "credits"), 0),
    semester   |-> _get_int(G, course, "semester"),
    difficulty |-> _get_int(G, course, "difficulty"),
    track      |-> _get_str(G, course, "track") ]

\* One "<what>: course=.. vs/≤/> bound=.. => verdict" line.
CheckLine(what, c, bound, verdict) == [check |-> what, course |-> c, bound |-> bound, verdict |-> verdict]

IntCheck(what, c, bound) ==
  IF bound = None \/ c = None THEN CheckLine(what, c, bound, "OK (no/unknown constraint)")
  ELSE IF Get(c) <= Get(bound) THEN CheckLine(what, c, bound, "OK")
       ELSE CheckLine(what, c, bound, "FAIL")

TrackCheck(c_track, preferred_track) ==
  IF Falsy(preferred_track) \/ Falsy(c_track) THEN CheckLine("track", c_track, preferred_track, "OK (no/unknown constraint)")
  ELSE IF c_track = preferred_track THEN CheckLine("track", c_track, preferred_track, "OK")
       ELSE CheckLine("track", c_track, preferred_track, "FAIL")

\* Mutant: the line reports the total after the course was added.
BudgetLineAfter(c_cred, current_total, max_credits, decision) ==
  [course |-> c_cred, current_total |-> current_total + c_cred, max |-> max_credits, decision |-> decision]

BudgetLine(c_cred, current_total, max_credits, decision) ==
  [course |-> c_cred, current_total |-> current_total, max |-> max_credits, decision |-> decision]

_constraint_checks(target_semester, max_difficulty, preferred_track, max_credits, current_total_credits, course_meta) ==
  LET lines == << IntCheck("semester", course_meta.semester, target_semester),
                  IntCheck("difficulty", course_meta.difficulty, max_difficulty),
                  TrackCheck(course_meta.track, preferred_track) >>
  IN [ ok          |-> \A i \in 1..3 : lines[i].verdict # "FAIL",
       lines       |-> lines,
       budget_line |-> IF max_credits = None
                       THEN BudgetLine(course_meta.credits, current_total_credits, max_credits, "selected by relevance")
                       ELSE BudgetLine(course_meta.credits, current_total_credits, max_credits, "decision during selection") ]

taken_courses(G, s) == objects(G, s, "takesCourse")

\* Mutant: the lookup forgets its subject.
InterestsOfAnyone(G, s) == {t[3] : t \in {u \in G.edges : u[2] = "hasInterest"}}

interest_skills(G, s) == objects(G, s, "hasInterest")

\* for c in taken_courses: for sk in g.objects(c, teachesSkill): gained_skills.add(sk)
gained_skills(G, s) == UNION {objects(G, c, "teachesSkill") : c \in taken_courses(G, s)}

\* taught.intersection(interest_skills)
matched_interests(G, s, course) == objects(G, course, "teachesSkill") \cap interest_skills(G, s)

\* Mutant: the prerequisite check is dropped.
PrereqsIgnored(prereqs, taken) == TRUE

\* Mutant: a course without prerequisites fails the prerequisite check.
PrereqsNonVacuous(prereqs, taken) == prereqs # {} /\ prereqs \subseteq taken

\* prereqs.issubset(taken_courses)
PrereqsTaken(prereqs, taken) == prereqs \subseteq taken

Checks(G, s, course) ==
  _constraint_checks(_get_int(G, s, "targetSemester"), _get_int(G, s, "maxDifficulty"),
                     _get_str(G, s, "preferredTrack"), _get_int(G, s, "maxCredits"), 0,
                     _course_meta(G, course))

\* The loop body's three `continue`s and the `if not ok_non_budget: continue`.
Survives(G, s, course) ==
  /\ course \notin taken_courses(G, s)
  /\ matched_interests(G, s, course) # {}
  /\ PrereqsTaken(objects(G, course, "hasPrerequisite"), taken_courses(G, s))
  /\ Checks(G, s, course).ok

score(n_matched, meta) ==
  <<n_matched, 0 - OrElse(meta.difficulty, MISSING_RANK), 0 - OrElse(meta.semester, MISSING_RANK)>>

\* The dict appended for a surviving course; skOrd is the order in which the
\* set `matched` is iterated.
Candidate(G, s, course, skOrd) ==
  LET matched == matched_interests(G, s, course)
      meta == _course_meta(G, course)
      chk == Checks(G, s, course)
      student_label == iri_to_label(G, s)
      course_label == iri_to_label(G, course)
      mseq == Restrict(skOrd, matched)
      pseq == SortedByLabel(G, SetToSeq(objects(G, course, "hasPrerequisite")))
  IN [ course_uri        |-> course,
       course_label      |-> course_label,
       matched_interests |-> SortedLabels(G, matched),
       meta              |-> meta,
       score             |-> score(Cardinality(matched), meta),
       explain           |->
         [ interest_paths    |-> [i \in 1..Len(mseq) |-> <<student_label, "hasInterest", iri_to_label(G, mseq[i]), "teachesSkill", course_label>>],
           prereq_paths      |-> [i \in 1..Len(pseq) |-> <<course_label, "hasPrerequisite", iri_to_label(G, pseq[i]), student_label, "takesCourse", iri_to_label(G, pseq[i])>>],
           constraint_checks |-> chk.lines,
           budget_line       |-> chk.budget_line ] ]

\* The candidate loop over g.subjects(RDF.type, Course), enumerated as ord,
\* and candidates.sort(key=lambda x: x["score"], reverse=True).
RankedCandidates(G, s, ord, skOrd) ==
  LET kept == Restrict(ord, {c \in Range(ord) : Survives(G, s, c)})
      cands == [i \in 1..Len(kept) |-> Candidate(G, s, kept[i], skOrd)]
  IN Items(SortStable([i \in 1..Len(cands) |-> [item |-> cands[i], key |-> cands[i].score]], TRUE))

\* Mutant: the budget is tested before the course is added.
FitsBeforeAdding(running, c_cred, max_credits) == running <= Get(max_credits)

\* Mutant: the running total is forgotten.
FitsAlone(running, c_cred, max_credits) == c_cred <= Get(max_credits)

\* total + c_cred <= max_credits
Fits(running, c_cred, max_credits) == running + c_cred <= Get(max_credits)

\* Mutant: `break` instead of `continue`.
BreakAfterSkipped(i, n) == n + 1

\* `continue` in the budget loop: the pass goes on with the next candidate.
AfterSkipped(i, n) == i + 1

\* Mutant: the skills gained from taken courses are left out.
InterestsOnly(G, s) == interest_skills(G, s)

\* interest_skills.union(gained_skills)
available_skills(G, s) == interest_skills(G, s) \cup gained_skills(G, s)

\* The explanation path of one matched skill of a career; takenOrd is the
\* order in which the set taken_courses is iterated.
CareerPath(G, s, car, sk, takenOrd) ==
  LET teaching == Restrict(takenOrd, {c \in Range(takenOrd) : contains(G, c, "teachesSkill", sk)})
  IN IF sk \in interest_skills(G, s)
     THEN <<"interest", iri_to_label(G, s), "hasInterest", iri_to_label(G, sk), "requiresSkill", iri_to_label(G, car)>>
     ELSE IF teaching # <<>> /\ ~Falsy(Some(iri_to_label(G, Head(teaching))))
          THEN <<"course", iri_to_label(G, s), "takesCourse", iri_to_label(G, Head(teaching)), "teachesSkill", iri_to_label(G, sk), "requiresSkill", iri_to_label(G, car)>>
          ELSE <<"available", iri_to_label(G, sk), "requiresSkill", iri_to_label(G, car)>>

CareerEntry(G, s, car, takenOrd) ==
  LET matched == objects(G, car, "requiresSkill") \cap available_skills(G, s)
      mseq == SortedByLabel(G, SetToSeq(matched))
  IN [ career         |-> iri_to_label(G, car),
       matched_skills |-> SortedLabels(G, matched),
       explain_paths  |-> [i \in 1..Len(mseq) |-> CareerPath(G, s, car, mseq[i], takenOrd)] ]

\* The career loop over g.subjects(RDF.type, Career), enumerated as ord, and
\* rec_careers.sort(key=lambda x: (-len(x["matched_skills"]), x["career"])).
RecCareers(G, s, ord, takenOrd) ==
  LET kept == Restrict(ord, {c \in Range(ord) : objects(G, c, "requiresSkill") \cap available_skills(G, s) # {}})
      recs == [i \in 1..Len(kept) |-> CareerEntry(G, s, kept[i], takenOrd)]
  IN Items(SortStable([i \in 1..Len(recs) |->
             [item |-> recs[i], key |-> <<0 - Len(recs[i].matched_skills), LexRank(recs[i].career), 0>>]], FALSE))

\* Mutant: papers are matched against the gained skills too.
PaperSkillsWithGained(G, s) == available_skills(G, s)

\* The skills a paper is matched against: related.intersection(interest_skills).
PaperSkills(G, s) == interest_skills(G, s)

PaperEntry(G, s, p) ==
  LET mseq == SortedByLabel(G, SetToSeq(objects(G, p, "relatedTo") \cap PaperSkills(G, s)))
  IN [ paper         |-> iri_to_label(G, p),
       explain_paths |-> [i \in 1..Len(mseq) |-> <<iri_to_label(G, s), "hasInterest", iri_to_label(G, mseq[i]), "relatedTo", iri_to_label(G, p)>>] ]

\* The paper loop over g.subjects(RDF.type, ResearchPaper), enumerated as
\* ord, and rec_papers.sort(key=lambda x: x["paper"]).
RecPapers(G, s, ord) ==
  LET kept == Restrict(ord, {p \in Range(ord) : objects(G, p, "relatedTo") \cap PaperSkills(G, s) # {}})
      recs == [i \in 1..Len(kept) |-> PaperEntry(G, s, kept[i])]
  IN Items(SortStable([i \in 1..Len(recs) |-> [item |-> recs[i], key |-> <<LexRank(recs[i].paper), 0, 0>>]], FALSE))

\* ---------------------------------------------------------------- state
VARIABLES
  g,            \* GRAPH
  student,      \* student_iri of the request
  pc,           \* where recommend() is: "candidates", "select", "papers", "done"
  candidates,   \* the list candidates
  idx,          \* the position of the budget loop in candidates
  total,        \* the running credit total
  rec_courses,
  rec_careers,
  rec_papers,
  returned,     \* what each finished call of recommend() returned
  csv,          \* the rows of the CSV files, in the order build_graph_from_csv reads them
  pos,          \* the row build_graph_from_csv is at
  kg,           \* the graph build_graph_from_csv is filling (its local g)
  boot,         \* module import: "loading", "published" (GRAPH assigned), "aborted" (raised)
  other,        \* the locals of a second request, served by another thread
  qrows         \* the rows g.query returned in run_query, None before

life == <<csv, pos, kg, boot>>

vars == <<g, student, pc, candidates, idx, total, rec_courses, rec_careers, rec_papers, returned, csv, pos, kg, boot, other, qrows>>

\* A thread that serves no request.
IdleThread ==
  [ pc |-> "idle", student |-> "", candidates |-> <<>>, idx |-> 1, total |-> 0,
    rec_courses |-> <<>>, rec_careers |-> <<>>, rec_papers |-> <<>>, returned |-> <<>> ]

max_credits == _get_int(g, student, "maxCredits")

Init ==
  /\ g \in Graphs
  /\ student \in StudentIds
  /\ pc = "candidates"
  /\ candidates = <<>>
  /\ idx = 1
  /\ total = 0
  /\ rec_courses = <<>>
  /\ rec_careers = <<>>
  /\ rec_papers = <<>>
  /\ returned = <<>>
  /\ csv = <<>>
  /\ pos = 1
  /\ kg = g
  /\ boot = "published"
  /\ other = IdleThread
  /\ qrows = None

\* recommend(), to the end of candidates.sort.
CollectCandidates ==
  /\ pc = "candidates"
  /\ \E ord \in Perms(subjects(g, "type", "Course")), skOrd \in Perms(subjects(g, "type", "Skill")) :
       candidates' = RankedCandidates(g, student, ord, skOrd)
  /\ idx' = 1
  /\ total' = 0
  /\ rec_courses' = <<>>
  /\ pc' = "select"
  /\ UNCHANGED <<g, student, rec_careers, rec_papers, returned, life, other, qrows>>

\* One iteration of `for item in candidates`.
SelectStep ==
  /\ pc = "select"
  /\ idx <= Len(candidates)
  /\ LET item == candidates[idx]
         c_cred == item.meta.credits
     IN \/ /\ max_credits = None
           /\ candidates' = [candidates EXCEPT ![idx].explain.budget_line = BudgetLine(c_cred, total, max_credits, "SELECTED")]
           /\ total' = total + c_cred
           /\ rec_courses' = Append(rec_courses, [course |-> item.course_label, matched_interests |-> item.matched_interests, explain |-> candidates'[idx].explain])
           /\ idx' = idx + 1
        \/ /\ max_credits # None
           /\ Fits(total, c_cred, max_credits)
           /\ candidates' = [candidates EXCEPT ![idx].explain.budget_line = BudgetLine(c_cred, total, max_credits, "SELECTED")]
           /\ total' = total + c_cred
           /\ rec_courses' = Append(rec_courses, [course |-> item.course_label, matched_interests |-> item.matched_interests, explain |-> candidates'[idx].explain])
           /\ idx' = idx + 1
        \/ /\ max_credits # None
           /\ ~Fits(total, c_cred, max_credits)
           /\ candidates' = [candidates EXCEPT ![idx].explain.budget_line = BudgetLine(c_cred, total, max_credits, "SKIPPED")]
           /\ idx' = AfterSkipped(idx, Len(candidates))
           /\ UNCHANGED <<total, rec_courses>>
  /\ UNCHANGED <<g, student, pc, rec_careers, rec_papers, returned, life, other, qrows>>

\* The career loop and its sort, once the budget loop has ended.
CareersStep ==
  /\ pc = "select"
  /\ idx > Len(candidates)
  /\ \E ord \in Perms(subjects(g, "type", "Career")), takenOrd \in Perms(taken_courses(g, student)) :
       rec_careers' = RecCareers(g, student, ord, takenOrd)
  /\ pc' = "papers"
  /\ UNCHANGED <<g, student, candidates, idx, total, rec_courses, rec_papers, returned, life, other, qrows>>

\* The paper loop, its sort and the return.
PapersStep ==
  /\ pc = "papers"
  /\ \E ord \in Perms(subjects(g, "type", "ResearchPaper")) :
       rec_papers' = RecPapers(g, student, ord)
  /\ returned' = Append(returned, [courses |-> rec_courses, careers |-> rec_careers, papers |-> rec_papers'])
  /\ pc' = "done"
  /\ UNCHANGED <<g, student, candidates, idx, total, rec_courses, rec_careers, life, other, qrows>>

\* Another request for the same student (home and run_query both call
\* recommend(g, selected_student) on the one GRAPH).
Again ==
  /\ pc = "done"
  /\ Len(returned) < MaxRuns
  /\ pc' = "candidates"
  /\ candidates' = <<>>
  /\ idx' = 1
  /\ total' = 0
  /\ rec_courses' = <<>>
  /\ rec_careers' = <<>>
  /\ rec_papers' = <<>>
  /\ UNCHANGED <<g, student, returned, life, other, qrows>>

Next == CollectCandidates \/ SelectStep \/ CareersStep \/ PapersStep \/ Again

Spec == Init /\ [][Next]_vars

\* ======================================================= CSV -> graph
\* A cell of a csv.DictReader row: the text of the cell, or Absent when the
\* header has no such column or the line is too short (row.get gives None,
\* row[...] raises KeyError, _as_uri(None) raises AttributeError).
Absent == "<absent>"

MaxRows == 6

\* One row of one of the CSV files. id is the file's first id column
\* (course_id, career_id, student_id), ref its second one (prereq_id,
\* skill_id).
Row(file, id, ref, credits, taken, interests, max) ==
  [ file |-> file, id |-> id, ref |-> ref, label |-> Absent, credits |-> credits,
    taken_courses |-> taken, interests |-> interests, max_credits |-> max ]

\* The rows a data directory may hold, in the order the files are read.
RowPool ==
  << Row("courses", "CS101", Absent, "", Absent, Absent, Absent),
     Row("courses", "CS201", Absent, "4", Absent, Absent, Absent),
     Row("courses", "CS202", Absent, "6", Absent, Absent, Absent),
     Row("courses", "CS202", Absent, "many", Absent, Absent, Absent),
     Row("courses", Absent, Absent, "3", Absent, Absent, Absent),
     Row("prerequisites", "CS201", "CS101", Absent, Absent, Absent, Absent),
     Row("course_skills", "CS201", "ML", Absent, Absent, Absent, Absent),
     Row("course_skills", "CS202", "ML", Absent, Absent, Absent, Absent),
     Row("careers", "Analyst", Absent, Absent, Absent, Absent, Absent),
     Row("career_skills", "Analyst", "ML", Absent, Absent, Absent, Absent),
     Row("students", "Ada", Absent, Absent, "CS101", "ML", "4"),
     Row("students", "Zed", Absent, Absent, "", "ML", "") >>

RECURSIVE Pick(_, _, _)
Pick(rows, I, i) ==
  IF i > Len(rows) THEN <<>>
  ELSE IF i \in I THEN <<rows[i]>> \o Pick(rows, I, i + 1) ELSE Pick(rows, I, i + 1)

\* The data directories: at most MaxRows rows of the pool, kept in order.
Inputs == {Pick(RowPool, I, 1) : I \in SubsetsUpTo(DOMAIN RowPool, MaxRows)}

\* Graph(), with the TBox left out: no class or property node is a
\* Student, Course, Skill, Career or ResearchPaper.
EmptyGraph == [edges |-> {}, ints |-> {}]

\* int(val) of Python on the cells of the pool: the number, or ValueError.
IntLiterals == [c \in {"3", "4", "6"} |-> CASE c = "3" -> 3 [] c = "4" -> 4 [] c = "6" -> 6]

IntRaises(val) == val \notin DOMAIN IntLiterals

\* [x.strip() for x in cell.split(";") if x.strip()] on the cells of the pool.
SplitCell(cell) ==
  CASE cell = Absent -> {}
    [] cell = "" -> {}
    [] cell = "CS101" -> {"CS101"}
    [] cell = "ML" -> {"ML"}

\* add_int returns at once on a None or blank value.
Blank(val) == val = Absent \/ val = ""

\* row.get("label", row[id_column]).
LabelCell(row, id) == IF row.label = Absent THEN id ELSE row.label

\* The int(val) of add_int, for the integer columns of the row's file.
IntCells(row) ==
  CASE row.file = "courses" -> {row.credits}
    [] row.file = "students" -> {row.max_credits}
    [] OTHER -> {}

\* The columns the loop of the row's file reads with row[...].
Required(row) ==
  IF row.file \in {"prerequisites", "course_skills", "career_skills"} THEN {row.id, row.ref} ELSE {row.id}

\* The loop body raises: KeyError on row[...], ValueError on int(val).
Raises(row) ==
  \/ Absent \in Required(row)
  \/ \E val \in IntCells(row) : ~Blank(val) /\ IntRaises(val)

\* The g.add calls of the loop body that take a node as object.
RowEdges(row) ==
  CASE row.file = "courses" ->
         {<<row.id, "type", "Course">>, <<row.id, "label", LabelCell(row, row.id)>>}
    [] row.file = "prerequisites" ->
         {<<row.id, "hasPrerequisite", row.ref>>}
    [] row.file = "course_skills" ->
         {<<row.ref, "type", "Skill">>, <<row.ref, "label", LabelCell(row, row.ref)>>, <<row.id, "teachesSkill", row.ref>>}
    [] row.file = "careers" ->
         {<<row.id, "type", "Career">>, <<row.id, "label", LabelCell(row, row.id)>>}
    [] row.file = "career_skills" ->
         {<<row.ref, "type", "Skill">>, <<row.id, "requiresSkill", row.ref>>}
    [] row.file = "students" ->
         {<<row.id, "type", "Student">>, <<row.id, "label", LabelCell(row, row.id)>>}
           \cup {<<row.id, "takesCourse", c>> : c \in SplitCell(row.taken_courses)}
           \cup {<<sk, "type", "Skill">> : sk \in SplitCell(row.interests)}
           \cup {<<row.id, "hasInterest", sk>> : sk \in SplitCell(row.interests)}

\* The add_int calls of the loop body.
RowInts(row) ==
  CASE row.file = "courses" /\ ~Blank(row.credits) -> {<<row.id, "credits", IntLiterals[row.credits]>>}
    [] row.file = "students" /\ ~Blank(row.max_credits) -> {<<row.id, "maxCredits", IntLiterals[row.max_credits]>>}
    [] OTHER -> {}

\* One row that loads: every g.add of its loop body.
LoadRow ==
  /\ boot = "loading"
  /\ pos <= Len(csv)
  /\ ~Raises(csv[pos])
  /\ kg' = [edges |-> kg.edges \cup RowEdges(csv[pos]), ints |-> kg.ints \cup RowInts(csv[pos])]
  /\ pos' = pos + 1
  /\ UNCHANGED <<g, student, pc, candidates, idx, total, rec_courses, rec_careers, rec_papers, returned, csv, boot, other, qrows>>

\* One row that raises: the exception leaves build_graph_from_csv and the
\* import of the module, GRAPH is never assigned. What the row added before
\* the raise stays in the abandoned local graph.
AbortBuild ==
  /\ boot = "loading"
  /\ pos <= Len(csv)
  /\ Raises(csv[pos])
  /\ kg' = IF Absent \in Required(csv[pos]) THEN kg
           ELSE [kg EXCEPT !.edges = @ \cup RowEdges(csv[pos])]
  /\ boot' = "aborted"
  /\ UNCHANGED <<g, student, pc, candidates, idx, total, rec_courses, rec_careers, rec_papers, returned, csv, pos, other, qrows>>

\* return g, and GRAPH = build_graph_from_csv(DATA_DIR).
Publish ==
  /\ boot = "loading"
  /\ pos > Len(csv)
  /\ g' = kg
  /\ boot' = "published"
  /\ UNCHANGED <<student, pc, candidates, idx, total, rec_courses, rec_careers, rec_papers, returned, csv, pos, kg, other, qrows>>

\* ================================================= concurrent requests
\* home() and run_query() under a threaded server: each request reads the
\* module's GRAPH and calls recommend(g, selected_student). A request can
\* only be served once the import of the module has assigned GRAPH.
Arrive ==
  /\ boot = "published"
  /\ pc = "idle"
  /\ student' \in StudentIds
  /\ pc' = "candidates"
  /\ UNCHANGED <<g, candidates, idx, total, rec_courses, rec_careers, rec_papers, returned, life, other, qrows>>

\* Mutant: the running total is kept in one place for all calls.
SharedTotal(own, shared) == shared

\* total is a local of recommend(): each call reads and writes its own.
RunningTotal(own, shared) == own

OtherArrive ==
  /\ boot = "published"
  /\ other.pc = "idle"
  /\ \E s \in StudentIds : other' = [other EXCEPT !.student = s, !.pc = "candidates"]
  /\ UNCHANGED <<g, student, pc, candidates, idx, total, rec_courses, rec_careers, rec_papers, returned, life, qrows>>

\* CollectCandidates in the second request.
OtherCollect ==
  /\ other.pc = "candidates"
  /\ \E ord \in Perms(subjects(g, "type", "Course")), skOrd \in Perms(subjects(g, "type", "Skill")) :
       other' = [other EXCEPT !.candidates = RankedCandidates(g, other.student, ord, skOrd),
                              !.idx = 1, !.total = 0, !.rec_courses = <<>>, !.pc = "select"]
  /\ UNCHANGED <<g, student, pc, candidates, idx, total, rec_courses, rec_careers, rec_papers, returned, life, qrows>>

\* SelectStep in the second request.
OtherSelect ==
  /\ other.pc = "select"
  /\ other.idx <= Len(other.candidates)
  /\ LET i == other.idx
         item == other.candidates[i]
         c_cred == item.meta.credits
         mc == _get_int(g, other.student, "maxCredits")
         running == RunningTotal(other.total, total)
         selected == BudgetLine(c_cred, running, mc, "SELECTED")
     IN \/ /\ IF mc = None THEN TRUE ELSE Fits(running, c_cred, mc)
           /\ other' = [other EXCEPT
                !.candidates[i].explain.budget_line = selected,
                !.total = running + c_cred,
                !.rec_courses = Append(@, [course |-> item.course_label, matched_interests |-> item.matched_interests,
                                           explain |-> [item.explain EXCEPT !.budget_line = selected]]),
                !.idx = i + 1]
        \/ /\ mc # None
           /\ ~Fits(running, c_cred, mc)
           /\ other' = [other EXCEPT
                !.candidates[i].explain.budget_line = BudgetLine(c_cred, running, mc, "SKIPPED"),
                !.idx = AfterSkipped(i, Len(other.candidates))]
  /\ UNCHANGED <<g, student, pc, candidates, idx, total, rec_courses, rec_careers, rec_papers, returned, life, qrows>>

\* CareersStep in the second request.
OtherCareers ==
  /\ other.pc = "select"
  /\ other.idx > Len(other.candidates)
  /\ \E ord \in Perms(subjects(g, "type", "Career")), takenOrd \in Perms(taken_courses(g, other.student)) :
       other' = [other EXCEPT !.rec_careers = RecCareers(g, other.student, ord, takenOrd), !.pc = "papers"]
  /\ UNCHANGED <<g, student, pc, candidates, idx, total, rec_courses, rec_careers, rec_papers, returned, life, qrows>>

\* PapersStep in the second request.
OtherPapers ==
  /\ other.pc = "papers"
  /\ \E ord \in Perms(subjects(g, "type", "ResearchPaper")) :
       LET papers == RecPapers(g, other.student, ord)
       IN other' = [other EXCEPT
            !.rec_papers = papers,
            !.returned = Append(@, [courses |-> other.rec_courses, careers |-> other.rec_careers, papers |-> papers]),
            !.pc = "done"]
  /\ UNCHANGED <<g, student, pc, candidates, idx, total, rec_courses, rec_careers, rec_papers, returned, life, qrows>>

\* The process from its start: the import of the module, then two requests
\* served by two threads.
InitLife ==
  /\ csv \in Inputs
  /\ pos = 1
  /\ kg = EmptyGraph
  /\ g = EmptyGraph
  /\ boot = "loading"
  /\ student = "Ada"
  /\ pc = "idle"
  /\ candidates = <<>>
  /\ idx = 1
  /\ total = 0
  /\ rec_courses = <<>>
  /\ rec_careers = <<>>
  /\ rec_papers = <<>>
  /\ returned = <<>>
  /\ other = IdleThread
  /\ qrows = None

NextLife ==
  \/ LoadRow \/ AbortBuild \/ Publish
  \/ Arrive \/ CollectCandidates \/ SelectStep \/ CareersStep \/ PapersStep
  \/ OtherArrive \/ OtherCollect \/ OtherSelect \/ OtherCareers \/ OtherPapers

SpecLife == InitLife /\ [][NextLife]_vars

\* ============================================================ /query
\* Mutant: the second FILTER NOT EXISTS without its nested one.
EligibleTemplateFlat(s) ==
  [ select |-> "?courseLabel", distinct |-> TRUE, order_by |-> "?courseLabel",
    where |->
      [ patterns |-> << <<s, "type", "Student">>, <<"?course", "type", "Course">>, <<"?course", "label", "?courseLabel">> >>,
        not_exists |-> <<
          [ patterns |-> << <<s, "takesCourse", "?course">> >>, not_exists |-> <<>> ],
          [ patterns |-> << <<"?course", "hasPrerequisite", "?p">> >>, not_exists |-> <<>> ] >> ] ]

\* Template 4 of sparql_templates(student_iri), parsed: the triple patterns
\* of the WHERE group and its FILTER NOT EXISTS groups, the projected
\* variable, DISTINCT and ORDER BY. `a` is rdf:type; s is <student_iri>.
EligibleTemplate(s) ==
  [ select |-> "?courseLabel", distinct |-> TRUE, order_by |-> "?courseLabel",
    where |->
      [ patterns |-> << <<s, "type", "Student">>, <<"?course", "type", "Course">>, <<"?course", "label", "?courseLabel">> >>,
        not_exists |-> <<
          [ patterns |-> << <<s, "takesCourse", "?course">> >>, not_exists |-> <<>> ],
          [ patterns |-> << <<"?course", "hasPrerequisite", "?p">> >>,
            not_exists |-> << [ patterns |-> << <<s, "takesCourse", "?p">> >>, not_exists |-> <<>> ] >> ] >> ] ]

\* The evaluator behind g.query: a binding gives every variable of the
\* query a node or label, or Unbound.
QueryVars == {"?course", "?courseLabel", "?p"}

Unbound == ""

NoBinding == [v \in QueryVars |-> Unbound]

\* A component of a pattern agrees with a component of a triple under b.
Compatible(term, b, val) == IF term \in QueryVars THEN b[term] \in {Unbound, val} ELSE term = val

\* b extended by the variables the pattern binds on triple t.
Extend(b, pat, t) ==
  [v \in QueryVars |->
     IF b[v] # Unbound THEN b[v]
     ELSE IF \E k \in 1..3 : pat[k] = v THEN t[CHOOSE k \in 1..3 : pat[k] = v]
     ELSE Unbound]

\* One triple pattern joined to one binding.
MatchPattern(G, pat, b) ==
  {Extend(b, pat, t) : t \in {u \in G.edges : \A k \in 1..3 : Compatible(pat[k], b, u[k])}}

\* The required patterns, left to right, joined to the bindings so far.
RECURSIVE JoinPatterns(_, _, _)
JoinPatterns(G, pats, B) ==
  IF pats = <<>> THEN B
  ELSE JoinPatterns(G, Tail(pats), UNION {MatchPattern(G, Head(pats), b) : b \in B})

\* A group under a binding: its patterns joined, then every FILTER NOT
\* EXISTS evaluated per binding as a sub-evaluation that drops the binding
\* when the nested group has a match (anti-join).
RECURSIVE EvalGroup(_, _, _)
EvalGroup(G, group, b) ==
  {x \in JoinPatterns(G, group.patterns, {b}) :
     \A k \in DOMAIN group.not_exists : EvalGroup(G, group.not_exists[k], x) = {}}

\* g.query(sparql) and the row strings run_query builds from it: the
\* projected value of every solution, DISTINCT, ORDER BY ascending.
Query(G, q) ==
  LET rows == {b[q.select] : b \in EvalGroup(G, q.where, NoBinding)}
      enum == SetToSeq(rows)
  IN Items(SortStable([i \in 1..Len(enum) |-> [item |-> enum[i], key |-> <<LexRank(enum[i]), 0, 0>>]], FALSE))

\* run_query with template 4 selected, after its recommend call has
\* returned: sparql = templates[...], res = g.query(sparql), qrows.
RunQuery ==
  /\ pc = "done"
  /\ qrows = None
  /\ qrows' = Some(Query(g, EligibleTemplate(student)))
  /\ UNCHANGED <<g, student, pc, candidates, idx, total, rec_courses, rec_careers, rec_papers, returned, life, other>>

\* The stores the query is run on: the worked example, with at most
\* MaxEdits of these triples added when it lacks them and removed when it
\* has them, every node keeping at most one label.
QueryEdits ==
  { <<"Ada", "takesCourse", "CS101">>, <<"Ada", "takesCourse", "CS201">>,
    <<"CS201", "hasPrerequisite", "CS101">>, <<"CS202", "hasPrerequisite", "CS101">>,
    <<"CS202", "hasPrerequisite", "CS201">>,
    <<"CS202", "label", "CS202">>, <<"CS202", "label", "CS201">>,
    <<"Ada", "type", "Student">> }

QueryGraphs ==
  LET base == TypeEdges \cup LabelEdges \cup BaseEdges
  IN { G \in { [edges |-> (base \ x[1]) \cup (x[1] \ base), ints |-> ApplyInts(x[2])] :
                 x \in { y \in SubsetsUpTo(QueryEdits, MaxEdits) \X SubsetsUpTo({<<"Ada", "maxCredits", 6>>}, 1) :
                           Cardinality(y[1]) + Cardinality(y[2]) <= MaxEdits } } :
         SingleValued({t \in G.edges : t[2] = "label"}) }

InitQuery ==
  /\ g \in QueryGraphs
  /\ student \in StudentIds
  /\ pc = "candidates"
  /\ candidates = <<>>
  /\ idx = 1
  /\ total = 0
  /\ rec_courses = <<>>
  /\ rec_careers = <<>>
  /\ rec_papers = <<>>
  /\ returned = <<>>
  /\ csv = <<>>
  /\ pos = 1
  /\ kg = g
  /\ boot = "published"
  /\ other = IdleThread
  /\ qrows = None

NextQuery == CollectCandidates \/ SelectStep \/ CareersStep \/ PapersStep \/ RunQuery

SpecQuery == InitQuery /\ [][NextQuery]_vars

\* =============================================================== claims
\* The graph read directly, triple by triple.
Has(s, p, o) == <<s, p, o>> \in g.edges

HasInt(s, p, n) == <<s, p, n>> \in g.ints

CourseNodes == {t[1] : t \in {u \in g.edges : u[2] = "type" /\ u[3] = "Course"}}

\* The Course node an output entry's label names.
CourseNamed(label) == CHOOSE c \in CourseNodes : Has(c, "label", label)

\* The credits of a course: its credits triple, 0 when it has none.
CreditsOf(c) == IF \E n \in {t[3] : t \in g.ints} : HasInt(c, "credits", n)
                THEN CHOOSE n \in {t[3] : t \in g.ints} : HasInt(c, "credits", n)
                ELSE 0

IntValues == {t[3] : t \in g.ints}

StringValues == {t[3] : t \in g.edges}

MaxCreditsSet == \E m \in IntValues : HasInt(student, "maxCredits", m)

MaxCreditsValue == CHOOSE m \in IntValues : HasInt(student, "maxCredits", m)

\* Every list of recommended courses there is: those returned and the one
\* being built.
CourseLists == {returned[i].courses : i \in DOMAIN returned} \cup {rec_courses}

RECURSIVE SumCredits(_)
SumCredits(courses) ==
  IF courses = <<>> THEN 0 ELSE CreditsOf(CourseNamed(Head(courses).course)) + SumCredits(Tail(courses))

Labels(courses) == [i \in DOMAIN courses |-> courses[i].course]

Decision(i) == candidates[i].explain.budget_line.decision

\* C1: every recommended course is not taken, has all its prerequisites
\* taken, teaches one of the student's interests, and passes each hard check
\* (semester, difficulty, track) whose two sides are both known.
C1_Included(c) ==
  /\ ~Has(student, "takesCourse", c)
  /\ \A p \in CourseNodes \cup StringValues : Has(c, "hasPrerequisite", p) => Has(student, "takesCourse", p)
  /\ \E k \in StringValues : Has(c, "teachesSkill", k) /\ Has(student, "hasInterest", k)
  /\ \A a, b \in IntValues : HasInt(c, "semester", a) /\ HasInt(student, "targetSemester", b) => a <= b
  /\ \A a, b \in IntValues : HasInt(c, "difficulty", a) /\ HasInt(student, "maxDifficulty", b) => a <= b
  /\ \A a, b \in StringValues : Has(c, "track", a) /\ Has(student, "preferredTrack", b) => a = b

C1_CourseInclusion ==
  \A courses \in CourseLists : \A i \in DOMAIN courses : C1_Included(CourseNamed(courses[i].course))

\* A returned course with a prerequisite and a hard check known on both sides.
C1_Witness ==
  /\ pc = "done"
  /\ \E i \in DOMAIN rec_courses :
       LET c == CourseNamed(rec_courses[i].course)
       IN /\ \E p \in CourseNodes : Has(c, "hasPrerequisite", p)
          /\ \/ \E a, b \in IntValues : HasInt(c, "semester", a) /\ HasInt(student, "targetSemester", b)
             \/ \E a, b \in IntValues : HasInt(c, "difficulty", a) /\ HasInt(student, "maxDifficulty", b)
             \/ \E a, b \in StringValues : Has(c, "track", a) /\ Has(student, "preferredTrack", b)

\* The budget loop has made at least one step of the current pass.
AfterAStep == (pc = "select" /\ idx > 1) \/ (pc \in {"papers", "done"} /\ candidates # <<>>)

\* C2 as stated: whenever maxCredits is set, to any integer, the running
\* total after every step of the greedy pass and the sum of the credits of
\* the recommended courses are <= maxCredits.
C2_BudgetAnyInteger ==
  MaxCreditsSet =>
    /\ AfterAStep => total <= MaxCreditsValue
    /\ \A i \in DOMAIN returned : SumCredits(returned[i].courses) <= MaxCreditsValue

\* C2 amended: whenever maxCredits is set to an integer >= 0, the running
\* total after every step of the greedy pass and the sum of the credits of
\* the recommended courses are <= maxCredits, for any credits values.
C2_BudgetNonNegative ==
  (MaxCreditsSet /\ MaxCreditsValue >= 0) =>
    /\ AfterAStep => total <= MaxCreditsValue
    /\ \A i \in DOMAIN returned : SumCredits(returned[i].courses) <= MaxCreditsValue

\* A finished pass under a budget >= 0 that selected one course and skipped
\* another.
C2_Witness ==
  /\ pc = "done"
  /\ MaxCreditsSet /\ MaxCreditsValue >= 0
  /\ \E i, j \in DOMAIN candidates : Decision(i) = "SELECTED" /\ Decision(j) = "SKIPPED"
  /\ total > 0

\* The greedy accept/skip rule over a ranked list of course labels.
RECURSIVE GreedyPass(_, _, _)
GreedyPass(ranked, running, budget) ==
  IF ranked = <<>> THEN <<>>
  ELSE LET credits == CreditsOf(CourseNamed(Head(ranked)))
       IN IF running + credits <= budget
          THEN <<Head(ranked)>> \o GreedyPass(Tail(ranked), running + credits, budget)
          ELSE GreedyPass(Tail(ranked), running, budget)

RankedLabels == [i \in DOMAIN candidates |-> candidates[i].course_label]

\* C3: with maxCredits set, the recommended courses are exactly what one
\* pass over the ranked candidates in rank order yields: a candidate is
\* accepted iff running total + credits <= maxCredits, otherwise skipped,
\* and the pass goes on to the next candidate either way.
C3_GreedyPass ==
  (MaxCreditsSet /\ pc # "candidates") =>
    /\ Labels(rec_courses) = GreedyPass(SubSeq(RankedLabels, 1, idx - 1), 0, MaxCreditsValue)
    /\ pc = "done" => Labels(returned[Len(returned)].courses) = GreedyPass(RankedLabels, 0, MaxCreditsValue)

\* A finished pass under a budget in which a skipped candidate is followed
\* by a selected one.
C3_Witness ==
  /\ pc = "done"
  /\ MaxCreditsSet
  /\ \E i, j \in DOMAIN candidates : i < j /\ Decision(i) = "SKIPPED" /\ Decision(j) = "SELECTED"

\* C4 as stated: once one ranked candidate does not fit, no later candidate
\* of the ranked list is selected.
C4_NothingAfterFirstMisfit ==
  pc \in {"papers", "done"} =>
    \A i, j \in DOMAIN candidates : (i < j /\ Decision(i) = "SKIPPED") => Decision(j) # "SELECTED"

\* C4 amended: the greedy budget selector never raises, and a candidate
\* that does not fit is skipped without ending the pass: every step of the
\* pass moves on to the next candidate of the ranked list, selecting the
\* current one iff it fits the budget left.
C4_PassAlwaysAdvances ==
  [][(pc = "select" /\ idx <= Len(candidates)) =>
       /\ pc' = "select"
       /\ idx' = idx + 1
       /\ MaxCreditsSet =>
            IF total + CreditsOf(CourseNamed(candidates[idx].course_label)) <= MaxCreditsValue
            THEN Labels(rec_courses') = Append(Labels(rec_courses), candidates[idx].course_label)
            ELSE rec_courses' = rec_courses]_vars

\* The pass stands at a candidate that fits, right after one that was skipped.
C4_Witness ==
  /\ pc = "select"
  /\ idx > 1 /\ idx <= Len(candidates)
  /\ Decision(idx - 1) = "SKIPPED"
  /\ MaxCreditsSet
  /\ total + CreditsOf(CourseNamed(candidates[idx].course_label)) <= MaxCreditsValue

\* The value the graph holds for an integer attribute of a course, as a
\* set: empty when the course has none.
Attr(c, prop) == {n \in IntValues : HasInt(c, prop, n)}

MatchCount(c) == Cardinality({k \in StringValues : Has(c, "teachesSkill", k) /\ Has(student, "hasInterest", k)})

\* On one component of the rank: a has a value and b has none, or both have
\* one and a's is the smaller (the larger negation).
BetterAttr(a, b) == a # {} /\ (b = {} \/ (CHOOSE x \in a : TRUE) < (CHOOSE y \in b : TRUE))

\* c ranks strictly above d by (matched interests, -difficulty, -semester),
\* a missing difficulty or semester being worst.
RanksAbove(c, d) ==
  \/ MatchCount(c) > MatchCount(d)
  \/ MatchCount(c) = MatchCount(d) /\ BetterAttr(Attr(c, "difficulty"), Attr(d, "difficulty"))
  \/ /\ MatchCount(c) = MatchCount(d)
     /\ Attr(c, "difficulty") = Attr(d, "difficulty")
     /\ BetterAttr(Attr(c, "semester"), Attr(d, "semester"))

\* C5: the surviving candidates are ranked descending by (matched
\* interests, -difficulty, -semester); a course without a difficulty (or
\* semester) is worst on that component and a course with one, 0 and very
\* large values included, is ranked by its value.
C5_RankedByValue ==
  pc # "candidates" =>
    \A i, j \in DOMAIN candidates :
      i < j => ~RanksAbove(candidates[j].course_uri, candidates[i].course_uri)

\* The worked example of the specification: the graph with no edit.
AdaExample == g.edges = ApplyEdges({}) /\ g.ints = ApplyInts({}) /\ student = "Ada"

\* C6: candidates with equal rank tuples are put in ascending label order
\* before the greedy pass: in the worked example (CS201 and CS202 of equal
\* rank) the selection order is [CS201, CS202] and recommend(Ada).courses is
\* [CS201], whatever the order in which the graph enumerates its Course
\* nodes.
C6_TiesByLabel ==
  AdaExample =>
    /\ pc # "candidates" => RankedLabels = <<"CS201", "CS202">>
    /\ \A i \in DOMAIN returned : Labels(returned[i].courses) = <<"CS201">>

\* C7: two runs of recommend on the same graph and student return the same
\* value: the same courses, careers and papers in the same order with the
\* same explanation paths.
C7_SameOutput == \A i, j \in DOMAIN returned : returned[i] = returned[j]

\* C8: for a student id that is the subject of no triple, recommend returns
\* empty courses, careers and papers.
C8_UnknownStudent ==
  ((\A t \in g.edges : t[1] # student) /\ (\A t \in g.ints : t[1] # student)) =>
    /\ \A i \in DOMAIN returned : returned[i] = [courses |-> <<>>, careers |-> <<>>, papers |-> <<>>]
    /\ pc = "done" => Len(returned) > 0

\* A call for the unknown student has returned, on a graph in which the
\* known student has a course, a career and a paper to be recommended.
C8_Witness ==
  /\ pc = "done"
  /\ student = "Zed"
  /\ \A t \in g.edges : t[1] # "Zed"
  /\ \E c \in CourseNodes, k \in StringValues : Has(c, "teachesSkill", k) /\ Has("Ada", "hasInterest", k)

CareerNodes == {t[1] : t \in {u \in g.edges : u[2] = "type" /\ u[3] = "Career"}}

PaperNodes == {t[1] : t \in {u \in g.edges : u[2] = "type" /\ u[3] = "ResearchPaper"}}

LabelOf(n) == CHOOSE l \in StringValues : Has(n, "label", l)

\* The skills a career requires that the student is interested in or that
\* a course the student has taken teaches.
CareerMatch(car) ==
  {k \in StringValues :
     /\ Has(car, "requiresSkill", k)
     /\ \/ Has(student, "hasInterest", k)
        \/ \E c \in StringValues : Has(student, "takesCourse", c) /\ Has(c, "teachesSkill", k)}

\* C9: a Career node is recommended iff requiresSkill(career) intersects
\* hasInterest(S) united with the skills taught by the courses in
\* takesCourse(S); its matched_skills are the labels of that intersection.
C9_Careers ==
  \A i \in DOMAIN returned :
    LET careers == returned[i].careers
    IN /\ \A car \in CareerNodes :
            (\E n \in DOMAIN careers : careers[n].career = LabelOf(car)) <=> CareerMatch(car) # {}
       /\ \A n \in DOMAIN careers :
            \E car \in CareerNodes :
              /\ careers[n].career = LabelOf(car)
              /\ Range(careers[n].matched_skills) = {LabelOf(k) : k \in CareerMatch(car)}
              /\ Len(careers[n].matched_skills) = Cardinality(CareerMatch(car))

\* A returned career matched only through a skill taught by a taken course,
\* and a career that was not matched.
C9_Witness ==
  /\ pc = "done"
  /\ \E car \in CareerNodes :
       /\ CareerMatch(car) # {}
       /\ \A k \in CareerMatch(car) : ~Has(student, "hasInterest", k)
       /\ \E n \in DOMAIN rec_careers : rec_careers[n].career = LabelOf(car)
  /\ \E car \in CareerNodes : CareerMatch(car) = {}

\* C10: a paper is recommended iff relatedTo(paper) intersects
\* hasInterest(S); a paper related only to skills taught by taken courses is
\* never returned; the papers are in ascending order of label.
C10_Papers ==
  \A i \in DOMAIN returned :
    LET papers == returned[i].papers
    IN /\ \A p \in PaperNodes :
            (\E n \in DOMAIN papers : papers[n].paper = LabelOf(p))
              <=> (\E k \in StringValues : Has(p, "relatedTo", k) /\ Has(student, "hasInterest", k))
       /\ \A n \in DOMAIN papers : \E p \in PaperNodes : papers[n].paper = LabelOf(p)
       /\ \A m, n \in DOMAIN papers : m < n => LexRank(papers[m].paper) < LexRank(papers[n].paper)

\* A call returned a paper, and left out a paper that is related only to a
\* skill taught by a course the student has taken.
C10_Witness ==
  /\ pc = "done"
  /\ rec_papers # <<>>
  /\ \E p \in PaperNodes :
       /\ \E k \in StringValues, c \in StringValues :
            Has(p, "relatedTo", k) /\ Has(student, "takesCourse", c) /\ Has(c, "teachesSkill", k)
       /\ \A k \in StringValues : Has(p, "relatedTo", k) => ~Has(student, "hasInterest", k)
       /\ \A n \in DOMAIN rec_papers : rec_papers[n].paper # LabelOf(p)

\* C13: without a maxCredits value every surviving candidate is selected:
\* the recommended courses are exactly the Course nodes that are not taken,
\* whose prerequisites (none included) are all taken, that teach an interest
\* and that fail no hard check known on both sides.
C13_AllSelected ==
  ~MaxCreditsSet =>
    \A i \in DOMAIN returned :
      /\ Range(Labels(returned[i].courses)) = {LabelOf(c) : c \in {d \in CourseNodes : C1_Included(d)}}
      /\ Len(returned[i].courses) = Cardinality({d \in CourseNodes : C1_Included(d)})

\* Without a budget, a call returned two courses, one of them without any
\* prerequisite, and left out a course.
C13_Witness ==
  /\ pc = "done"
  /\ ~MaxCreditsSet
  /\ Len(rec_courses) = 2
  /\ \E i \in DOMAIN rec_courses :
       \A p \in StringValues : ~Has(CourseNamed(rec_courses[i].course), "hasPrerequisite", p)
  /\ \E c \in CourseNodes : ~C1_Included(c)

\* C14: the budget line of every recommended course reports SELECTED, never
\* the tentative text, and its current_total is the sum of the credits of
\* the courses before it in the output.
C14_FinalBudgetLine ==
  \A courses \in CourseLists : \A i \in DOMAIN courses :
    /\ courses[i].explain.budget_line.decision = "SELECTED"
    /\ courses[i].explain.budget_line.current_total = SumCredits(SubSeq(courses, 1, i - 1))

\* A call returned two courses, the second with a current_total above 0.
C14_Witness ==
  /\ pc = "done"
  /\ Len(rec_courses) = 2
  /\ rec_courses[2].explain.budget_line.current_total > 0
  /\ \E i \in DOMAIN candidates : Decision(i) = "SELECTED"

\* The nodes whose label is l.
Named(l) == {n \in {t[1] : t \in g.edges} : Has(n, "label", l)}

\* C15: every matched skill of a recommended career has exactly one path:
\* the direct-interest form if the skill is an interest, otherwise the
\* via-course form naming a taken course that teaches the skill; the
\* 'skill available' form is never produced.
C15_CareerPaths ==
  \A i \in DOMAIN returned : \A n \in DOMAIN returned[i].careers :
    LET entry == returned[i].careers[n]
    IN /\ Len(entry.explain_paths) = Len(entry.matched_skills)
       /\ \A m \in DOMAIN entry.explain_paths :
            LET path == entry.explain_paths[m]
                sk == CHOOSE k \in Named(entry.matched_skills[m]) : TRUE
            IN /\ path[1] # "available"
               /\ Has(student, "hasInterest", sk) => (path[1] = "interest" /\ path[4] = entry.matched_skills[m])
               /\ ~Has(student, "hasInterest", sk) =>
                    /\ path[1] = "course"
                    /\ path[6] = entry.matched_skills[m]
                    /\ \E c \in Named(path[4]) : Has(student, "takesCourse", c) /\ Has(c, "teachesSkill", sk)

\* A call returned a career with a direct-interest path and a career with
\* a via-course path.
C15_Witness ==
  /\ pc = "done"
  /\ \E n \in DOMAIN rec_careers : \E m \in DOMAIN rec_careers[n].explain_paths : rec_careers[n].explain_paths[m][1] = "interest"
  /\ \E n \in DOMAIN rec_careers : \E m \in DOMAIN rec_careers[n].explain_paths : rec_careers[n].explain_paths[m][1] = "course"

NoCredits(c) == \A n \in IntValues : ~HasInt(c, "credits", n)

\* C16: a candidate without a credits value counts as 0 credits in the
\* greedy pass: with maxCredits set it is selected exactly when the running
\* total is already <= maxCredits, and the running total stays as it is.
C16_NoCreditsIsZero ==
  [][(pc = "select" /\ idx <= Len(candidates) /\ MaxCreditsSet /\ NoCredits(candidates[idx].course_uri)) =>
       /\ total' = total
       /\ IF total <= MaxCreditsValue
          THEN Labels(rec_courses') = Append(Labels(rec_courses), candidates[idx].course_label)
          ELSE rec_courses' = rec_courses]_vars

\* A candidate without credits was selected under a budget, and a later
\* candidate was selected after it.
C16_Witness ==
  /\ pc = "done"
  /\ MaxCreditsSet
  /\ Len(rec_courses) = 2
  /\ NoCredits(CourseNamed(rec_courses[1].course))

\* ---------------------------------------------------------------- C11
\* The CSV rows read directly, cell by cell.
Defines(rows, file, id) == \E i \in DOMAIN rows : rows[i].file = file /\ rows[i].id = id

MissingRequiredField(row) ==
  \/ row.id = Absent
  \/ row.file \in {"prerequisites", "course_skills", "career_skills"} /\ row.ref = Absent

NonNumericInteger(row) ==
  \/ row.file = "courses" /\ row.credits \notin {Absent, "", "3", "4", "6"}
  \/ row.file = "students" /\ row.max_credits \notin {Absent, "", "3", "4", "6"}

\* The row names a course or a career that no courses.csv or careers.csv
\* row defines.
UnresolvableReference(rows, row) ==
  \/ row.file = "prerequisites" /\ ~(Defines(rows, "courses", row.id) /\ Defines(rows, "courses", row.ref))
  \/ row.file = "course_skills" /\ ~Defines(rows, "courses", row.id)
  \/ row.file = "career_skills" /\ ~Defines(rows, "careers", row.id)
  \/ row.file = "students" /\ row.taken_courses \notin {Absent, ""} /\ ~Defines(rows, "courses", row.taken_courses)

\* C11: when a row of the input has a missing required field, a non-numeric
\* value in an integer column or an unresolvable reference, the build aborts
\* and no store is published: a published store comes from an input with
\* none of the three.
C11_AbortsOnBadInput ==
  boot = "published" =>
    \A i \in DOMAIN csv :
      /\ ~MissingRequiredField(csv[i])
      /\ ~NonNumericInteger(csv[i])
      /\ ~UnresolvableReference(csv, csv[i])

\* The part of C11 the code keeps: a missing required field or a non-numeric
\* integer never reaches a published store.
C11_AbortsOnRaise ==
  boot = "published" =>
    \A i \in DOMAIN csv : ~MissingRequiredField(csv[i]) /\ ~NonNumericInteger(csv[i])

\* ---------------------------------------------------------------- C12
\* recommend(G, s) run alone, from the first line to the return: the budget
\* loop over a ranked candidate list, with its own running total.
RECURSIVE SoloPass(_, _, _, _)
SoloPass(cands, i, running, mc) ==
  IF i > Len(cands) THEN <<>>
  ELSE LET item == cands[i]
           c_cred == item.meta.credits
           fits == IF mc = {} THEN TRUE ELSE running + c_cred <= Get(mc)
           line == [course |-> c_cred, current_total |-> running, max |-> mc, decision |-> "SELECTED"]
       IN IF fits
          THEN <<[course |-> item.course_label, matched_interests |-> item.matched_interests,
                  explain |-> [item.explain EXCEPT !.budget_line = line]]>>
                 \o SoloPass(cands, i + 1, running + c_cred, mc)
          ELSE SoloPass(cands, i + 1, running, mc)

\* Everything a lone call of recommend(G, s) can return, over the orders in
\* which the graph may enumerate its nodes.
AloneResults(G, s) ==
  LET mc == {t[3] : t \in {u \in G.ints : u[1] = s /\ u[2] = "maxCredits"}}
      courses == {SoloPass(RankedCandidates(G, s, ord, skOrd), 1, 0, mc) :
                    ord \in Perms(subjects(G, "type", "Course")), skOrd \in Perms(subjects(G, "type", "Skill"))}
      careers == {RecCareers(G, s, ord, takenOrd) :
                    ord \in Perms(subjects(G, "type", "Career")), takenOrd \in Perms(taken_courses(G, s))}
      papers == {RecPapers(G, s, ord) : ord \in Perms(subjects(G, "type", "ResearchPaper"))}
  IN {[courses |-> c, careers |-> k, papers |-> q] : c \in courses, k \in careers, q \in papers}

\* C12: a request is served only once the store is published; from then on
\* no step of any request changes the store; and whatever the interleaving
\* of the two requests, what each one returns is a result of running it
\* alone on that store.
C12_Isolation ==
  /\ []((pc # "idle" \/ other.pc # "idle") => boot = "published")
  /\ [][boot = "published" => g' = g]_vars
  /\ [](/\ \A i \in DOMAIN returned : returned[i] \in AloneResults(g, student)
        /\ \A i \in DOMAIN other.returned : other.returned[i] \in AloneResults(g, other.student))

\* One request has returned courses while the other, for another student, is
\* in the middle of its budget loop with a course already selected and one
\* more to decide.
C12_Witness ==
  /\ boot = "published"
  /\ pc = "select" /\ idx = 2 /\ Len(candidates) = 2 /\ total > 0
  /\ other.pc = "done" /\ other.student # student
  /\ Len(other.returned[1].courses) > 0

\* ---------------------------------------------------------------- C17
\* The Course nodes with a label that the student has not taken and whose
\* prerequisites the student has all taken, read from the triples.
EligibleCourses ==
  {c \in CourseNodes :
     /\ \E l \in StringValues : Has(c, "label", l)
     /\ ~Has(student, "takesCourse", c)
     /\ \A p \in StringValues : Has(c, "hasPrerequisite", p) => Has(student, "takesCourse", p)}

\* The same set by the two checks of recommend's candidate loop.
EligibleByRecommend ==
  {c \in subjects(g, "type", "Course") :
     /\ value(g, c, "label") # None
     /\ c \notin taken_courses(g, student)
     /\ PrereqsTaken(objects(g, c, "hasPrerequisite"), taken_courses(g, student))}

\* C17: for a Student node, the rows of query template 4 are exactly the
\* distinct labels of the eligible courses, each once, in ascending order,
\* and the eligible courses are those that pass recommend's two checks.
C17_EligibleQuery ==
  (qrows # None /\ Has(student, "type", "Student")) =>
    LET rows == Get(qrows)
    IN /\ Range(rows) = {l \in StringValues : \E c \in EligibleCourses : Has(c, "label", l)}
       /\ \A i, j \in DOMAIN rows : i < j => LexRank(rows[i]) < LexRank(rows[j])
       /\ EligibleCourses = EligibleByRecommend

\* The query has run for a Student node and returned a course that has a
\* prerequisite, while another labelled course, not taken, is left out for
\* a prerequisite the student has not taken.
C17_Witness ==
  /\ qrows # None
  /\ Has(student, "type", "Student")
  /\ \E c \in EligibleCourses : Has(c, "label", Get(qrows)[1]) /\ \E p \in StringValues : Has(c, "hasPrerequisite", p)
  /\ \E c \in CourseNodes \ EligibleCourses :
        /\ \E l \in StringValues : Has(c, "label", l)
        /\ ~Has(student, "takesCourse", c)
====
